---- MODULE Spec2Model ----
(***************************************************************************)
(* A model of the time parsing, trim validation and download-option        *)
(* construction of the YouTube downloader: the console variant             *)
(* (src/enhanced.py) and the dashboard variant                             *)
(* (src/streamlit_youtube_app.py).                                         *)
(*                                                                         *)
(* Text is a sequence of one-character strings.  An optional integer is    *)
(* None (<<>>) or Some(n) (<<n>>).  A call's outcome is a record           *)
(* [exc, val]: exc = "" for a normal return of val, else the name of the   *)
(* exception that escaped.                                                 *)
(***************************************************************************)
EXTENDS Integers, Sequences, FiniteSets, TLC

\* ------------------------------------------------------------------ bounds
\* Longest text enumerated exhaustively over Alphabet.
MaxLen == 4
\* Largest field value of the rendered M:S and H:M:S texts.
MaxField == 3
\* Largest colon-free literal rendered.
MaxLiteral == 100
\* Video durations run over 0..MaxDuration seconds (and unknown).
MaxDuration == 3
\* Times typed into the trim fields run over -MaxNegative..MaxTime seconds.
MaxTime == 4
MaxNegative == 1
\* Durations rendered by format_duration run over 0..MaxSeconds seconds.
MaxSeconds == 3700
\* Longest list of stream descriptors handed to get_available_formats.
MaxDescriptors == 2
\* Last instant of the wall clock, in ticks, and the ticks of one second.
MaxNow == 3
TicksPerSecond == 2
\* safe_title[:50]
TitleLimit == 50
\* Longest short title, and longest tail of a long title.
MaxTitle == 2

\* ------------------------------------------------------- python primitives
None == <<>>
Some(n) == <<n>>

Ret(v) == [exc |-> "", val |-> v]
Raise(e) == [exc |-> e, val |-> None]

\* A local variable: the value is computed once and named in the body.
Let(value, In(_)) == In(value)
Let2(value1, value2, In(_, _)) == In(value1, value2)
Let3(value1, value2, value3, In(_, _, _)) == In(value1, value2, value3)

\* `if x:` on an optional integer: None and 0 are falsy.
Truthy(x) == x # None /\ x[1] # 0

Whitespace == {" ", "\t", "\n"}
Digits == {"0", "1", "2", "3", "4", "5", "6", "7", "8", "9"}

DigitVal(c) ==
    CASE c = "0" -> 0 [] c = "1" -> 1 [] c = "2" -> 2 [] c = "3" -> 3
      [] c = "4" -> 4 [] c = "5" -> 5 [] c = "6" -> 6 [] c = "7" -> 7
      [] c = "8" -> 8 [] c = "9" -> 9

Range(s) == {s[i] : i \in 1..Len(s)}

RECURSIVE lstrip(_)
lstrip(s) == IF s # <<>> /\ s[1] \in Whitespace THEN lstrip(Tail(s)) ELSE s

RECURSIVE rstrip(_)
rstrip(s) ==
    IF s # <<>> /\ s[Len(s)] \in Whitespace
    THEN rstrip(SubSeq(s, 1, Len(s) - 1))
    ELSE s

\* str.strip()
strip(s) == rstrip(lstrip(s))

\* str.split(sep): always at least one part; empty parts are kept.
RECURSIVE split(_, _)
split(s, sep) ==
    IF sep \notin Range(s)
    THEN <<s>>
    ELSE LET k == CHOOSE i \in 1..Len(s) :
                     s[i] = sep /\ \A j \in 1..(i - 1) : s[j] # sep
         IN  <<SubSeq(s, 1, k - 1)>> \o split(SubSeq(s, k + 1, Len(s)), sep)

\* The digits of an int() argument after its sign: one or more digits, single
\* underscores allowed between digits only.
DigitsBody(b) ==
    /\ b # <<>>
    /\ \A i \in 1..Len(b) : b[i] \in Digits \cup {"_"}
    /\ b[1] # "_" /\ b[Len(b)] # "_"
    /\ \A i \in 1..(Len(b) - 1) : ~(b[i] = "_" /\ b[i + 1] = "_")

RECURSIVE HornerVal(_, _)
HornerVal(b, acc) ==
    IF b = <<>> THEN acc
    ELSE IF b[1] = "_" THEN HornerVal(Tail(b), acc)
    ELSE HornerVal(Tail(b), acc * 10 + DigitVal(b[1]))

\* int(s) of a str: surrounding whitespace ignored, optional sign, decimal
\* digits; anything else raises ValueError.
py_int(s) ==
    Let(strip(s), LAMBDA t :
        LET signed == t # <<>> /\ t[1] \in {"+", "-"}
            body == IF signed THEN Tail(t) ELSE t
        IN  IF DigitsBody(body)
            THEN Ret(Some(IF signed /\ t[1] = "-"
                          THEN 0 - HornerVal(body, 0)
                          ELSE HornerVal(body, 0)))
            ELSE Raise("ValueError"))

\* ------------------------------------------------------------ parse_time
\* parse_time with the hours of H:M:S weighted as minutes.
parse_time_hours_as_minutes(time_str) ==
    Let(strip(time_str), LAMBDA t :
        IF t = <<>>
        THEN Ret(None)
        ELSE IF ":" \in Range(t)
        THEN Let(split(t, ":"), LAMBDA parts :
             IF Len(parts) = 2
             THEN Let2(py_int(parts[1]), py_int(parts[2]),
                       LAMBDA minutes, seconds :
                  IF "ValueError" \in {minutes.exc, seconds.exc}
                  THEN Ret(None)
                  ELSE Ret(Some(minutes.val[1] * 60 + seconds.val[1])))
             ELSE IF Len(parts) = 3
             THEN Let3(py_int(parts[1]), py_int(parts[2]), py_int(parts[3]),
                       LAMBDA hours, minutes, seconds :
                  IF "ValueError" \in {hours.exc, minutes.exc, seconds.exc}
                  THEN Ret(None)
                  ELSE Ret(Some(hours.val[1] * 60 + minutes.val[1] * 60
                                + seconds.val[1])))
             ELSE Ret(None))
        ELSE Let(py_int(t), LAMBDA r :
             IF r.exc = "ValueError" THEN Ret(None) ELSE r))

\* src/enhanced.py parse_time.
parse_time(time_str) ==
    Let(strip(time_str), LAMBDA t :
        IF t = <<>>
        THEN Ret(None)
        ELSE IF ":" \in Range(t)
        THEN Let(split(t, ":"), LAMBDA parts :
             IF Len(parts) = 2
             THEN Let2(py_int(parts[1]), py_int(parts[2]),
                       LAMBDA minutes, seconds :
                  IF "ValueError" \in {minutes.exc, seconds.exc}
                  THEN Ret(None)
                  ELSE Ret(Some(minutes.val[1] * 60 + seconds.val[1])))
             ELSE IF Len(parts) = 3
             THEN Let3(py_int(parts[1]), py_int(parts[2]), py_int(parts[3]),
                       LAMBDA hours, minutes, seconds :
                  IF "ValueError" \in {hours.exc, minutes.exc, seconds.exc}
                  THEN Ret(None)
                  ELSE Ret(Some(hours.val[1] * 3600 + minutes.val[1] * 60
                                + seconds.val[1])))
             ELSE Ret(None))
        ELSE Let(py_int(t), LAMBDA r :
             IF r.exc = "ValueError" THEN Ret(None) ELSE r))

\* parse_time that takes the first three parts of a text with more colons
\* and lets the ValueError of a colon-free text escape.
st_parse_time_unguarded(time_str) ==
    Let(strip(time_str), LAMBDA t :
        IF t = <<>>
        THEN Ret(None)
        ELSE IF ":" \in Range(t)
        THEN Let(split(t, ":"), LAMBDA parts :
             IF Len(parts) = 2
             THEN Let2(py_int(parts[1]), py_int(parts[2]),
                       LAMBDA minutes, seconds :
                  IF "ValueError" \in {minutes.exc, seconds.exc}
                  THEN Ret(None)
                  ELSE Ret(Some(minutes.val[1] * 60 + seconds.val[1])))
             ELSE Let3(py_int(parts[1]), py_int(parts[2]), py_int(parts[3]),
                       LAMBDA hours, minutes, seconds :
                  IF "ValueError" \in {hours.exc, minutes.exc, seconds.exc}
                  THEN Ret(None)
                  ELSE Ret(Some(hours.val[1] * 3600 + minutes.val[1] * 60
                                + seconds.val[1]))))
        ELSE py_int(t))

\* src/streamlit_youtube_app.py parse_time (the same text as the console's).
st_parse_time(time_str) ==
    Let(strip(time_str), LAMBDA t :
        IF t = <<>>
        THEN Ret(None)
        ELSE IF ":" \in Range(t)
        THEN Let(split(t, ":"), LAMBDA parts :
             IF Len(parts) = 2
             THEN Let2(py_int(parts[1]), py_int(parts[2]),
                       LAMBDA minutes, seconds :
                  IF "ValueError" \in {minutes.exc, seconds.exc}
                  THEN Ret(None)
                  ELSE Ret(Some(minutes.val[1] * 60 + seconds.val[1])))
             ELSE IF Len(parts) = 3
             THEN Let3(py_int(parts[1]), py_int(parts[2]), py_int(parts[3]),
                       LAMBDA hours, minutes, seconds :
                  IF "ValueError" \in {hours.exc, minutes.exc, seconds.exc}
                  THEN Ret(None)
                  ELSE Ret(Some(hours.val[1] * 3600 + minutes.val[1] * 60
                                + seconds.val[1])))
             ELSE Ret(None))
        ELSE Let(py_int(t), LAMBDA r :
             IF r.exc = "ValueError" THEN Ret(None) ELSE r))

\* ------------------------------------------------------------- rendering
DigitChar(d) ==
    CASE d = 0 -> "0" [] d = 1 -> "1" [] d = 2 -> "2" [] d = 3 -> "3"
      [] d = 4 -> "4" [] d = 5 -> "5" [] d = 6 -> "6" [] d = 7 -> "7"
      [] d = 8 -> "8" [] d = 9 -> "9"

RECURSIVE NatStr(_)
NatStr(n) ==
    IF n < 10 THEN <<DigitChar(n)>>
    ELSE NatStr(n \div 10) \o <<DigitChar(n % 10)>>

\* str(n) and f"{n}" of an int.
str_int(n) == IF n < 0 THEN <<"-">> \o NatStr(0 - n) ELSE NatStr(n)

\* f"{n:02d}" of a non-negative int.
Pad2(n) == IF n < 10 THEN <<"0">> \o NatStr(n) ELSE NatStr(n)

\* format_duration with the minutes not reduced modulo the hour.
format_duration_minutes_unreduced(seconds) ==
    LET hours == seconds \div 3600
        minutes == seconds \div 60
        secs == seconds % 60
    IN  IF hours > 0
        THEN Pad2(hours) \o <<":">> \o Pad2(minutes) \o <<":">> \o Pad2(secs)
        ELSE Pad2(minutes) \o <<":">> \o Pad2(secs)

\* src/enhanced.py format_duration.
format_duration(seconds) ==
    LET hours == seconds \div 3600
        minutes == (seconds % 3600) \div 60
        secs == seconds % 60
    IN  IF hours > 0
        THEN Pad2(hours) \o <<":">> \o Pad2(minutes) \o <<":">> \o Pad2(secs)
        ELSE Pad2(minutes) \o <<":">> \o Pad2(secs)

\* src/streamlit_youtube_app.py format_duration: "Unknown" for a falsy
\* argument.
st_format_duration(seconds) ==
    IF seconds = 0
    THEN <<"U", "n", "k", "n", "o", "w", "n">>
    ELSE LET hours == seconds \div 3600
             minutes == (seconds % 3600) \div 60
             secs == seconds % 60
         IN  IF hours > 0
             THEN Pad2(hours) \o <<":">> \o Pad2(minutes) \o <<":">> \o Pad2(secs)
             ELSE Pad2(minutes) \o <<":">> \o Pad2(secs)

\* ------------------------------------------------- console: trimming
\* `x or d` on an optional integer x and an integer d.
OrElse(x, d) == IF Truthy(x) THEN x[1] ELSE d

\* A pass that ends in `continue`: the message printed, no bounds kept.
TrimRejected(m) == [msg |-> m, start_time |-> None, end_time |-> None]

\* trim_pass with the end checks made before the start checks.
trim_pass_end_first(start_input, end_input, duration) ==
    Let2(IF start_input # <<>> THEN parse_time(start_input).val ELSE None,
         IF end_input # <<>> THEN parse_time(end_input).val ELSE None,
         LAMBDA start_time, end_time :
        IF end_input # <<>> /\ end_time = None
        THEN TrimRejected("InvalidEndFormat")
        ELSE IF end_input # <<>> /\ end_time[1] > duration
        THEN TrimRejected("EndBeyondDuration")
        ELSE IF start_input # <<>> /\ start_time = None
        THEN TrimRejected("InvalidStartFormat")
        ELSE IF start_input # <<>> /\ start_time[1] >= duration
        THEN TrimRejected("StartBeyondDuration")
        ELSE IF end_input # <<>> /\ Truthy(start_time) /\ end_time[1] <= start_time[1]
        THEN TrimRejected("EndNotAfterStart")
        ELSE [msg |-> "", start_time |-> start_time, end_time |-> end_time])

\* trim_pass with `end_time >= duration` in place of `end_time > duration`.
trim_pass_end_exclusive(start_input, end_input, duration) ==
    Let2(IF start_input # <<>> THEN parse_time(start_input).val ELSE None,
         IF end_input # <<>> THEN parse_time(end_input).val ELSE None,
         LAMBDA start_time, end_time :
        IF start_input # <<>> /\ start_time = None
        THEN TrimRejected("InvalidStartFormat")
        ELSE IF start_input # <<>> /\ start_time[1] >= duration
        THEN TrimRejected("StartBeyondDuration")
        ELSE IF end_input # <<>> /\ end_time = None
        THEN TrimRejected("InvalidEndFormat")
        ELSE IF end_input # <<>> /\ end_time[1] >= duration
        THEN TrimRejected("EndBeyondDuration")
        ELSE IF end_input # <<>> /\ Truthy(start_time) /\ end_time[1] <= start_time[1]
        THEN TrimRejected("EndNotAfterStart")
        ELSE [msg |-> "", start_time |-> start_time, end_time |-> end_time])

\* One pass of the body of get_trim_settings' loop up to the confirmation
\* (src/enhanced.py 69-100) on the two stripped inputs.  msg is the message
\* printed before `continue` ("" when no check failed); start_time and
\* end_time are the locals when the pass reaches line 99.
trim_pass(start_input, end_input, duration) ==
    Let2(IF start_input # <<>> THEN parse_time(start_input).val ELSE None,
         IF end_input # <<>> THEN parse_time(end_input).val ELSE None,
         LAMBDA start_time, end_time :
        IF start_input # <<>> /\ start_time = None
        THEN TrimRejected("InvalidStartFormat")
        ELSE IF start_input # <<>> /\ start_time[1] >= duration
        THEN TrimRejected("StartBeyondDuration")
        ELSE IF end_input # <<>> /\ end_time = None
        THEN TrimRejected("InvalidEndFormat")
        ELSE IF end_input # <<>> /\ end_time[1] > duration
        THEN TrimRejected("EndBeyondDuration")
        ELSE IF end_input # <<>> /\ Truthy(start_time) /\ end_time[1] <= start_time[1]
        THEN TrimRejected("EndNotAfterStart")
        ELSE [msg |-> "", start_time |-> start_time, end_time |-> end_time])

\* trim_duration of get_trim_settings (src/enhanced.py 103).
trim_duration(start_time, end_time, duration) ==
    OrElse(end_time, duration) - OrElse(start_time, 0)

\* ------------------------------------------------- console: download
\* The "_trim_<start>-<end>" suffix of the file name, as its two parts;
\* <<>> when no suffix is added (src/enhanced.py 228-231).
trim_suffix(start_time, end_time) ==
    IF start_time # None \/ end_time # None
    THEN <<IF Truthy(start_time) THEN str_int(start_time[1]) \o <<"s">>
                                 ELSE <<"0", "s">>,
           IF Truthy(end_time) THEN str_int(end_time[1]) \o <<"s">>
                               ELSE <<"e", "n", "d">>>>
    ELSE <<>>

\* The seek/duration arguments for FFmpeg, as (flag, value) pairs
\* (src/enhanced.py 195-205).
trim_ffmpeg_args(start_time, end_time) ==
    (IF start_time # None THEN <<<<"-ss", str_int(start_time[1])>>>> ELSE <<>>)
    \o (IF end_time # None
        THEN IF start_time # None
             THEN <<<<"-t", str_int(end_time[1] - start_time[1])>>>>
             ELSE <<<<"-to", str_int(end_time[1])>>>>
        ELSE <<>>)

\* create_postprocessors without the `is not None` test: the converter and
\* metadata postprocessors are always added.
create_postprocessors_unconditional(start_time, end_time) ==
    [postprocessors |-> <<"FFmpegVideoConvertor", "FFmpegMetadata">>,
     ffmpeg_args |-> trim_ffmpeg_args(start_time, end_time)]

\* create_postprocessors (src/enhanced.py 189-219).
create_postprocessors(start_time, end_time) ==
    IF start_time # None \/ end_time # None
    THEN [postprocessors |-> <<"FFmpegVideoConvertor", "FFmpegMetadata">>,
          ffmpeg_args |-> trim_ffmpeg_args(start_time, end_time)]
    ELSE [postprocessors |-> <<>>, ffmpeg_args |-> <<>>]

\* The ydl_opts of the console download_video (src/enhanced.py 221-266);
\* an absent key is the empty sequence.
download_video(url, format_choice, start_time, end_time) ==
    Let(create_postprocessors(start_time, end_time), LAMBDA pp :
    [url |-> url,
     start_time |-> start_time,
     end_time |-> end_time,
     format |-> IF format_choice = "audio" THEN <<"bestaudio/best">>
                                           ELSE <<format_choice>>,
     suffix |-> trim_suffix(start_time, end_time),
     postprocessors |-> IF format_choice = "audio"
                        THEN <<"FFmpegExtractAudio">>
                        ELSE pp.postprocessors,
     postprocessor_args |-> pp.ffmpeg_args])

\* The ydl_opts of the basic console variant's download_video, which has no
\* trimming (src/youtube_downloader.py 89-109), in the same record shape.
basic_download_video(url, format_choice) ==
    [url |-> url,
     start_time |-> None,
     end_time |-> None,
     format |-> IF format_choice = "audio" THEN <<"bestaudio/best">>
                                           ELSE <<format_choice>>,
     suffix |-> <<>>,
     postprocessors |-> IF format_choice = "audio"
                        THEN <<"FFmpegExtractAudio">>
                        ELSE <<>>,
     postprocessor_args |-> <<>>]

\* ------------------------------------------------- output file names
\* c.isalnum() for the characters of the model's titles.
isalnum(c) == c \in Digits \cup {"a", "b", "T"}

\* "".join(c for c in title if c.isalnum() or c in (' ', '-', '_'))
\* .rstrip(), then [:50] (src/enhanced.py 224-225).
safe_title(title) ==
    Let(rstrip(SelectSeq(title, LAMBDA c : isalnum(c) \/ c \in {" ", "-", "_"})),
        LAMBDA kept :
        SubSeq(kept, 1, IF Len(kept) < TitleLimit THEN Len(kept) ELSE TitleLimit))

\* The basic variant's safe_title (src/youtube_downloader.py 92-93).
basic_safe_title(title) ==
    Let(rstrip(SelectSeq(title, LAMBDA c : isalnum(c) \/ c \in {" ", "-", "_"})),
        LAMBDA kept :
        SubSeq(kept, 1, IF Len(kept) < TitleLimit THEN Len(kept) ELSE TitleLimit))

\* The dashboard's safe_title without the [:50].
st_safe_title_untruncated(title) ==
    rstrip(SelectSeq(title, LAMBDA c : isalnum(c) \/ c \in {" ", "-", "_"}))

\* The dashboard's safe_title before the timestamp is added
\* (src/streamlit_youtube_app.py 255-256).
st_safe_title(title) ==
    Let(rstrip(SelectSeq(title, LAMBDA c : isalnum(c) \/ c \in {" ", "-", "_"})),
        LAMBDA kept :
        SubSeq(kept, 1, IF Len(kept) < TitleLimit THEN Len(kept) ELSE TitleLimit))

\* f"_trim_{start_str}-{end_str}" from the two parts of a suffix; nothing
\* when no suffix is added.
trim_suffix_text(suffix) ==
    IF suffix = <<>> THEN <<>>
    ELSE <<"_", "t", "r", "i", "m", "_">> \o suffix[1] \o <<"-">> \o suffix[2]

\* datetime.now().strftime("%Y%m%d_%H%M%S"): the text of the whole second
\* that holds the instant now (src/streamlit_youtube_app.py 259).
timestamp(now) == NatStr(now \div TicksPerSecond)

\* str(self.download_path / f'{safe_title}.%(ext)s') of the console
\* download_video (src/enhanced.py 223-231, 239, 255).
outtmpl(title, start_time, end_time) ==
    <<"downloads/">> \o safe_title(title)
    \o trim_suffix_text(trim_suffix(start_time, end_time))
    \o <<".", "%(ext)s">>

\* The outtmpl of the basic variant's download_video
\* (src/youtube_downloader.py 91-92, 97, 107).
basic_outtmpl(title) ==
    <<"downloads/">> \o basic_safe_title(title) \o <<".", "%(ext)s">>

\* The outtmpl of the dashboard download_video, called at the instant now
\* (src/streamlit_youtube_app.py 254-266, 280).
st_outtmpl(title, now, start_time, end_time) ==
    <<"downloads/">> \o st_safe_title(title) \o <<"_">> \o timestamp(now)
    \o trim_suffix_text(trim_suffix(start_time, end_time))
    \o <<".", "%(ext)s">>

\* ------------------------------------------------ dashboard: download
\* The ydl_opts of the dashboard download_video
\* (src/streamlit_youtube_app.py 252-355).
st_download_video(url, format_choice, start_time, end_time) ==
    LET audio == format_choice = "bestaudio/best"
        trimming == start_time # None \/ end_time # None
    IN
    [url |-> url,
     start_time |-> start_time,
     end_time |-> end_time,
     format |-> IF audio
                THEN <<"bestaudio[ext=m4a]/bestaudio/best">>
                ELSE <<format_choice,
                       "best[height<=1080][ext=mp4]/best[height<=1080]/best[ext=mp4]/best",
                       "bestvideo[ext=mp4]+bestaudio[ext=m4a]/best[ext=mp4]/best",
                       "best">>,
     suffix |-> IF trimming
                THEN <<IF Truthy(start_time) THEN str_int(start_time[1]) \o <<"s">>
                                             ELSE <<"0", "s">>,
                       IF Truthy(end_time) THEN str_int(end_time[1]) \o <<"s">>
                                           ELSE <<"e", "n", "d">>>>
                ELSE <<>>,
     postprocessors |-> (IF audio THEN <<"FFmpegExtractAudio">> ELSE <<>>)
                        \o (IF trimming THEN <<"FFmpegVideoConvertor">> ELSE <<>>),
     postprocessor_args |->
        IF trimming
        THEN (IF start_time # None THEN <<<<"-ss", str_int(start_time[1])>>>> ELSE <<>>)
             \o (IF end_time # None
                 THEN IF start_time # None
                      THEN <<<<"-t", str_int(end_time[1] - start_time[1])>>>>
                      ELSE <<<<"-to", str_int(end_time[1])>>>>
                 ELSE <<>>)
        ELSE <<>>]

\* ---------------------------------------------------------- catalogs
\* A stream descriptor of the extractor: [format_id, height, vcodec, acodec,
\* tbr, vbr]; height is optional, a codec is a name, "none" or Absent.
Absent == "<absent>"

\* The loop of the console get_available_formats (src/enhanced.py 139-153).
RECURSIVE scan_formats(_, _)
scan_formats(fs, seen_resolutions) ==
    IF fs = <<>> THEN <<>>
    ELSE LET f == Head(fs) IN
         IF /\ f.vcodec # "none" /\ f.acodec # "none"
            /\ Truthy(f.height) /\ f.height[1] \notin seen_resolutions
         THEN <<[format_id |-> f.format_id, height |-> f.height[1]]>>
              \o scan_formats(Tail(fs), seen_resolutions \cup {f.height[1]})
         ELSE scan_formats(Tail(fs), seen_resolutions)

\* list.sort(key=height, reverse=True): stable, highest first.
RECURSIVE sort_by_height(_)
sort_by_height(formats) ==
    IF formats = <<>> THEN <<>>
    ELSE Let2(Head(formats), sort_by_height(Tail(formats)), LAMBDA x, rest :
         Let(Cardinality({i \in 1..Len(rest) : rest[i].height > x.height}),
             LAMBDA before :
             SubSeq(rest, 1, before) \o <<x>>
             \o SubSeq(rest, before + 1, Len(rest))))

\* The console get_available_formats (src/enhanced.py 133-157).
get_available_formats(info) == sort_by_height(scan_formats(info.formats, {}))

\* The loop of the basic variant's get_available_formats
\* (src/youtube_downloader.py 38-53).
RECURSIVE basic_scan_formats(_, _)
basic_scan_formats(fs, seen_resolutions) ==
    IF fs = <<>> THEN <<>>
    ELSE LET f == Head(fs) IN
         IF /\ f.vcodec # "none" /\ f.acodec # "none"
            /\ Truthy(f.height) /\ f.height[1] \notin seen_resolutions
         THEN <<[format_id |-> f.format_id, height |-> f.height[1]]>>
              \o basic_scan_formats(Tail(fs), seen_resolutions \cup {f.height[1]})
         ELSE basic_scan_formats(Tail(fs), seen_resolutions)

\* The basic variant's get_available_formats (src/youtube_downloader.py
\* 33-57); its sort is the console's.
basic_get_available_formats(info) ==
    sort_by_height(basic_scan_formats(info.formats, {}))

\* The dashboard's loop without the `height not in seen_resolutions` test.
RECURSIVE st_scan_formats_undeduplicated(_, _)
st_scan_formats_undeduplicated(fs, seen_resolutions) ==
    IF fs = <<>> THEN <<>>
    ELSE LET f == Head(fs) IN
         IF /\ f.vcodec \notin {Absent, "", "none"}
            /\ Truthy(f.height)
         THEN <<[format_id |-> f.format_id, height |-> f.height[1],
                 has_audio |-> f.acodec \notin {Absent, "", "none"},
                 tbr |-> f.tbr, vbr |-> f.vbr]>>
              \o st_scan_formats_undeduplicated(Tail(fs), seen_resolutions)
         ELSE st_scan_formats_undeduplicated(Tail(fs), seen_resolutions)

\* The loop of the dashboard get_available_formats
\* (src/streamlit_youtube_app.py 136-165).
RECURSIVE st_scan_formats(_, _)
st_scan_formats(fs, seen_resolutions) ==
    IF fs = <<>> THEN <<>>
    ELSE LET f == Head(fs) IN
         IF /\ f.vcodec \notin {Absent, "", "none"}
            /\ Truthy(f.height) /\ f.height[1] \notin seen_resolutions
         THEN <<[format_id |-> f.format_id, height |-> f.height[1],
                 has_audio |-> f.acodec \notin {Absent, "", "none"},
                 tbr |-> f.tbr, vbr |-> f.vbr]>>
              \o st_scan_formats(Tail(fs), seen_resolutions \cup {f.height[1]})
         ELSE st_scan_formats(Tail(fs), seen_resolutions)

\* (height, tbr or 0, vbr or 0) of a catalog entry, compared as tuples.
KeyGreater(a, b) ==
    \/ a.height > b.height
    \/ a.height = b.height /\ OrElse(a.tbr, 0) > OrElse(b.tbr, 0)
    \/ /\ a.height = b.height /\ OrElse(a.tbr, 0) = OrElse(b.tbr, 0)
       /\ OrElse(a.vbr, 0) > OrElse(b.vbr, 0)

\* The dashboard's catalog left in the order of the scan.
st_sort_formats_unsorted(formats) == formats

\* list.sort(key=(height, tbr, vbr), reverse=True): stable, highest first.
RECURSIVE st_sort_formats(_)
st_sort_formats(formats) ==
    IF formats = <<>> THEN <<>>
    ELSE Let2(Head(formats), st_sort_formats(Tail(formats)), LAMBDA x, rest :
         Let(Cardinality({i \in 1..Len(rest) : KeyGreater(rest[i], x)}),
             LAMBDA before :
             SubSeq(rest, 1, before) \o <<x>>
             \o SubSeq(rest, before + 1, Len(rest))))

\* The dashboard get_available_formats (src/streamlit_youtube_app.py 130-175).
st_get_available_formats(info) == st_sort_formats(st_scan_formats(info.formats, {}))

\* ------------------------------------------- dashboard: page sections
\* The user's choice in the quality selectbox: the "Best Quality" option,
\* the "Audio Only" option, or the option of one resolution, whose text
\* holds the label f"{height}p".  label is the first part of the option
\* text that ends with "p" (<<>> when there is none).
BestQuality == [kind |-> "best", label |-> <<>>]
AudioOnly == [kind |-> "audio", label |-> <<>>]
Resolution(h) == [kind |-> "resolution", label |-> str_int(h) \o <<"p">>]

\* The options of create_download_options (src/streamlit_youtube_app.py
\* 177-214), in order.
create_download_options(formats) ==
    (IF formats # <<>> THEN <<BestQuality>> ELSE <<>>)
    \o [i \in 1..Len(formats) |-> Resolution(formats[i].height)]
    \o <<AudioOnly>>

\* f"best[height<={target_height}]/best" for the heights of the model.
HeightSelector(h) ==
    CASE h = 360 -> "best[height<=360]/best"
      [] h = 720 -> "best[height<=720]/best"
      [] h = 1080 -> "best[height<=1080]/best"
      [] OTHER -> "best[height<=N]/best"

\* max(matching, key=(has_audio, tbr or 0, vbr or 0)): the first maximum.
BestMatch(matching) ==
    LET better(a, b) ==
            \/ a.has_audio /\ ~b.has_audio
            \/ a.has_audio = b.has_audio /\ OrElse(a.tbr, 0) > OrElse(b.tbr, 0)
            \/ /\ a.has_audio = b.has_audio /\ OrElse(a.tbr, 0) = OrElse(b.tbr, 0)
               /\ OrElse(a.vbr, 0) > OrElse(b.vbr, 0)
        k == CHOOSE i \in 1..Len(matching) :
                 /\ \A j \in 1..Len(matching) : ~better(matching[j], matching[i])
                 /\ \A j \in 1..(i - 1) : better(matching[i], matching[j])
    IN  matching[k]

\* get_format_from_selection in which "Audio Only" is looked up in the
\* catalog like a resolution.
get_format_from_selection_audio_by_catalog(selection, formats) ==
    IF selection.kind = "best" THEN "best[height<=?1080]/best"
    ELSE IF selection.kind = "audio"
    THEN IF formats # <<>> THEN "bestaudio/best" ELSE "best[height<=?1080]/best"
    ELSE IF selection.label = <<>> THEN "best[height<=?1080]/best"
    ELSE Let(py_int(SubSeq(selection.label, 1, Len(selection.label) - 1)),
             LAMBDA target_height :
         IF target_height.exc = "ValueError" THEN "best[height<=?1080]/best"
         ELSE Let(SelectSeq(formats, LAMBDA f : f.height = target_height.val[1]),
                  LAMBDA matching_formats :
              IF matching_formats # <<>>
              THEN Let(BestMatch(matching_formats), LAMBDA best_match :
                   IF ~best_match.has_audio
                   THEN HeightSelector(target_height.val[1])
                   ELSE best_match.format_id)
              ELSE "best[height<=?1080]/best"))

\* get_format_from_selection that returns the matching entry's stream id
\* whether or not the entry has audio.
get_format_from_selection_video_only(selection, formats) ==
    IF selection.kind = "best" THEN "best[height<=?1080]/best"
    ELSE IF selection.kind = "audio" THEN "bestaudio/best"
    ELSE IF selection.label = <<>> THEN "best[height<=?1080]/best"
    ELSE Let(py_int(SubSeq(selection.label, 1, Len(selection.label) - 1)),
             LAMBDA target_height :
         IF target_height.exc = "ValueError" THEN "best[height<=?1080]/best"
         ELSE Let(SelectSeq(formats, LAMBDA f : f.height = target_height.val[1]),
                  LAMBDA matching_formats :
              IF matching_formats # <<>>
              THEN BestMatch(matching_formats).format_id
              ELSE "best[height<=?1080]/best"))

\* get_format_from_selection without the try/except and with the nearest
\* lower entry taken when no entry matches.
get_format_from_selection_unguarded(selection, formats) ==
    IF selection.kind = "best" THEN "best[height<=?1080]/best"
    ELSE IF selection.kind = "audio" THEN "bestaudio/best"
    ELSE IF selection.label = <<>> THEN "best[height<=?1080]/best"
    ELSE Let(py_int(SubSeq(selection.label, 1, Len(selection.label) - 1)),
             LAMBDA target_height :
         IF target_height.exc = "ValueError" THEN "raises ValueError"
         ELSE Let(SelectSeq(formats, LAMBDA f : f.height <= target_height.val[1]),
                  LAMBDA matching_formats :
              IF matching_formats # <<>>
              THEN Let(BestMatch(matching_formats), LAMBDA best_match :
                   IF ~best_match.has_audio
                   THEN HeightSelector(target_height.val[1])
                   ELSE best_match.format_id)
              ELSE "best[height<=?1080]/best"))

\* get_format_from_selection (src/streamlit_youtube_app.py 216-250).  The
\* ValueError of int(target_resolution[:-1]) is caught and leads to the
\* fallback.
get_format_from_selection(selection, formats) ==
    IF selection.kind = "best" THEN "best[height<=?1080]/best"
    ELSE IF selection.kind = "audio" THEN "bestaudio/best"
    ELSE IF selection.label = <<>> THEN "best[height<=?1080]/best"
    ELSE Let(py_int(SubSeq(selection.label, 1, Len(selection.label) - 1)),
             LAMBDA target_height :
         IF target_height.exc = "ValueError" THEN "best[height<=?1080]/best"
         ELSE Let(SelectSeq(formats, LAMBDA f : f.height = target_height.val[1]),
                  LAMBDA matching_formats :
              IF matching_formats # <<>>
              THEN Let(BestMatch(matching_formats), LAMBDA best_match :
                   IF ~best_match.has_audio
                   THEN HeightSelector(target_height.val[1])
                   ELSE best_match.format_id)
              ELSE "best[height<=?1080]/best"))

\* The trimming column of one run of the page (src/streamlit_youtube_app.py
\* 485-534): the parsed bounds, the previewed duration and the message of
\* the validation chain.  duration is video_info.get('duration', 0).
st_trim_section(enable_trim, ffmpeg_available, duration, start_time_str, end_time_str) ==
    IF enable_trim /\ ffmpeg_available /\ Truthy(duration)
    THEN Let2(IF start_time_str # <<>> THEN st_parse_time(start_time_str).val ELSE None,
              IF end_time_str # <<>> THEN st_parse_time(end_time_str).val ELSE None,
              LAMBDA start_time, end_time :
         [start_time |-> start_time,
          end_time |-> end_time,
          preview |-> IF start_time # None \/ end_time # None
                      THEN Some(OrElse(end_time, duration[1]) - OrElse(start_time, 0))
                      ELSE None,
          msgs |-> IF start_time = None /\ end_time = None THEN {}
                   ELSE IF Truthy(start_time) /\ start_time[1] >= duration[1]
                   THEN {"StartBeyondDuration"}
                   ELSE IF Truthy(end_time) /\ end_time[1] > duration[1]
                   THEN {"EndBeyondDuration"}
                   ELSE IF /\ Truthy(start_time) /\ Truthy(end_time)
                           /\ end_time[1] <= start_time[1]
                   THEN {"EndNotAfterStart"}
                   ELSE {}])
    ELSE [start_time |-> None, end_time |-> None, preview |-> None,
          msgs |-> IF enable_trim /\ ffmpeg_available
                   THEN {"DurationUnknownWarning"} ELSE {}]

\* st_trim_valid without the start check.
st_trim_valid_start_unchecked(enable_trim, ffmpeg_available, duration, start_time, end_time) ==
    IF enable_trim /\ ffmpeg_available
    THEN IF Truthy(end_time) /\ end_time[1] > duration[1]
         THEN "InvalidEndTime"
         ELSE IF Truthy(start_time) /\ Truthy(end_time) /\ end_time[1] <= start_time[1]
         THEN "InvalidTimeRange"
         ELSE ""
    ELSE ""

\* The validation of the Download button (src/streamlit_youtube_app.py
\* 545-557): the message shown, "" when trim_valid stays True.
st_trim_valid(enable_trim, ffmpeg_available, duration, start_time, end_time) ==
    IF enable_trim /\ ffmpeg_available
    THEN IF Truthy(start_time) /\ start_time[1] >= duration[1]
         THEN "InvalidStartTime"
         ELSE IF Truthy(end_time) /\ end_time[1] > duration[1]
         THEN "InvalidEndTime"
         ELSE IF Truthy(start_time) /\ Truthy(end_time) /\ end_time[1] <= start_time[1]
         THEN "InvalidTimeRange"
         ELSE ""
    ELSE ""

\* ----------------------------------------------------------------- texts
Alphabet == {"0", "1", "3", ":", " ", "-", "+", "_", "a"}

RECURSIVE TextsUpTo(_)
TextsUpTo(n) ==
    IF n = 0 THEN {<<>>}
    ELSE LET P == TextsUpTo(n - 1) IN
         P \cup {Append(t, c) : t \in {p \in P : Len(p) = n - 1}, c \in Alphabet}

\* The two renderings of a field a user may type: plain and zero-padded.
FieldTexts(n) == {NatStr(n), Pad2(n)}

\* Texts with a known positional value: [text, value].
PositionalTexts ==
    {[text |-> NatStr(n), value |-> n] : n \in 0..MaxLiteral}
    \cup UNION {{[text |-> m \o <<":">> \o s, value |-> mv * 60 + sv] :
                   m \in FieldTexts(mv), s \in FieldTexts(sv)} :
                 mv \in 0..MaxField, sv \in 0..MaxField}
    \cup UNION {{[text |-> h \o <<":">> \o m \o <<":">> \o s,
                    value |-> hv * 3600 + mv * 60 + sv] :
                   h \in FieldTexts(hv), m \in FieldTexts(mv), s \in FieldTexts(sv)} :
                 hv \in 0..MaxField, mv \in 0..MaxField, sv \in 0..MaxField}
    \cup {[text |-> <<"9", "0">>, value |-> 90],
          [text |-> <<"1", ":", "3", "0">>, value |-> 90],
          [text |-> <<"0", ":", "0", "1", ":", "3", "0">>, value |-> 90]}

\* Malformed texts of the specification's examples.
MalformedExamples ==
    {<<>>, <<" ", " ">>, <<"a", "b", "c">>, <<"1", ":", "2", ":", "3", ":", "4">>,
     <<"1", ".", "5">>, <<"1", ":", "x">>}

ParseInputs ==
    TextsUpTo(MaxLen) \cup {p.text : p \in PositionalTexts} \cup MalformedExamples

\* ---------------------------------------------------------------- inputs
\* What a user may type into a trim field: nothing, text that does not
\* parse, seconds (negative ones too), and an MM:SS text.
TimeTexts ==
    {<<>>, <<"a">>, <<"0", ":", "0", "2">>}
    \cup {str_int(n) : n \in (0 - MaxNegative)..MaxTime}

Durations == {None} \cup {Some(d) : d \in 0..MaxDuration}

Urls == {"", "example.com/x", "youtube.com/a"}

\* url.lower() in ['quit', 'exit', 'q']
IsQuit(url) == url \in {"quit", "exit", "q"}

\* 'youtube.com' in url or 'youtu.be' in url
HasYouTubeHost(url) == url \in {"youtube.com/a", "youtu.be/b"}

F18 == [format_id |-> "18", height |-> Some(360), vcodec |-> "avc1",
        acodec |-> "mp4a", tbr |-> Some(500), vbr |-> None]
F137 == [format_id |-> "137", height |-> Some(1080), vcodec |-> "avc1",
         acodec |-> "none", tbr |-> Some(4000), vbr |-> Some(4000)]
F140 == [format_id |-> "140", height |-> None, vcodec |-> "none",
         acodec |-> "mp4a", tbr |-> Some(128), vbr |-> None]

ExtractorFormats == {<<>>, <<F140, F137, F18>>}

\* What extract_info may return for a URL.
ExtractorInfos(url) ==
    {[video |-> url, duration |-> d, formats |-> fs] :
        d \in Durations, fs \in ExtractorFormats}

\* ------------------------------------------------------------------ state
VARIABLES
    time_str,        \* the text handed to parse_time
    result,          \* outcome of the console parse_time on time_str
    st_result,       \* outcome of the dashboard parse_time on time_str
    variant,         \* "parse", "console" (run), "basic" (run of the basic
                     \* console), "direct" (get_trim_settings
                     \* called on its own) or "dashboard"
    pc,              \* console: the prompt the program waits at
    url,             \* console: url; dashboard: the URL text input
    duration,        \* console: duration (optional integer)
    formats,         \* console: formats
    selected_format, \* console: selected_format
    start_input,     \* console: start_input of the last pass
    end_input,       \* console: end_input of the last pass
    start_time,      \* console: start_time awaiting confirmation
    end_time,        \* console: end_time awaiting confirmation
    trim_ret,        \* get_trim_settings' return in the last step, if any
    video_info,      \* dashboard: st.session_state.video_info
    ss_formats,      \* dashboard: st.session_state.formats
    ffmpeg_available,\* dashboard: ffmpeg_available
    enable_trim,     \* dashboard: the "Enable trimming" checkbox
    start_time_str,  \* dashboard: the "Start time" text input
    end_time_str,    \* dashboard: the "End time" text input
    selected,        \* dashboard: the quality selectbox
    seconds,         \* the argument handed to format_duration
    descriptors,     \* info['formats'] handed to get_available_formats
    catalog,         \* the console catalog built from descriptors, if built
    basic_catalog,   \* the basic variant's catalog, if built
    st_catalog,      \* the dashboard catalog, if built
    selection,       \* the selection handed to get_format_from_selection
    resolved,        \* what get_format_from_selection returned ("": not called)
    now,             \* the wall clock, in ticks
    inflight,        \* per session, the outtmpl of its running download, if any
    title,           \* info['title'] handed to download_video
    safe,            \* the console's safe_title of title, if computed
    basic_safe,      \* the basic variant's safe_title, if computed
    st_safe,         \* the dashboard's safe_title, if computed
    msgs,            \* the messages the last step showed
    preview,         \* the trim duration the last step showed, if any
    dl               \* the download_video call of the last step, if any

vars_parse == <<time_str, result, st_result>>
vars_console == <<pc, duration, formats, selected_format, start_input,
                  end_input, start_time, end_time, trim_ret>>
vars_dashboard == <<video_info, ss_formats, ffmpeg_available, enable_trim,
                    start_time_str, end_time_str, selected>>
vars_shown == <<msgs, preview, dl>>
vars_titles == <<title, safe, basic_safe, st_safe>>
vars_calls == <<seconds, descriptors, catalog, basic_catalog, st_catalog,
                selection, resolved, now, inflight, title, safe, basic_safe,
                st_safe>>
vars == <<vars_parse, vars_calls, variant, url, vars_console, vars_dashboard,
          vars_shown>>

NotCalled == [exc |-> "not called", val |-> None]

CatalogIdle ==
    /\ descriptors = <<>>
    /\ catalog = None /\ basic_catalog = None /\ st_catalog = None
    /\ selection = BestQuality /\ resolved = ""

\* The processes that download into the directory "downloads": two browser
\* sessions of the dashboard, two runs of the console, one of the basic
\* console.
Sessions == {"tab1", "tab2", "console1", "console2", "basic1"}

DownloadsIdle == now = 0 /\ inflight = [s \in Sessions |-> None]

TitlesIdle ==
    title = <<>> /\ safe = None /\ basic_safe = None /\ st_safe = None

CallsIdle == seconds = 0 /\ CatalogIdle /\ DownloadsIdle /\ TitlesIdle

ParseIdle ==
    time_str = <<>> /\ result = NotCalled /\ st_result = NotCalled /\ CallsIdle

ConsoleIdle ==
    /\ pc = "" /\ duration = None /\ formats = <<>> /\ selected_format = ""
    /\ start_input = <<>> /\ end_input = <<>>
    /\ start_time = None /\ end_time = None /\ trim_ret = None

DashboardIdle ==
    /\ video_info = None /\ ss_formats = <<>>
    /\ ffmpeg_available = FALSE /\ enable_trim = FALSE
    /\ start_time_str = <<>> /\ end_time_str = <<>> /\ selected = BestQuality

NothingShown == msgs = {} /\ preview = None /\ dl = None

\* --------------------------------------------------- parse_time, called
InitParse ==
    /\ time_str \in ParseInputs
    /\ result = NotCalled
    /\ st_result = NotCalled
    /\ variant = "parse" /\ url = ""
    /\ CallsIdle /\ ConsoleIdle /\ DashboardIdle /\ NothingShown

CallParseTime ==
    /\ variant = "parse"
    /\ result = NotCalled
    /\ result' = parse_time(time_str)
    /\ UNCHANGED <<time_str, st_result, vars_calls, variant, url, vars_console,
                   vars_dashboard, vars_shown>>

CallStParseTime ==
    /\ variant = "parse"
    /\ st_result = NotCalled
    /\ st_result' = st_parse_time(time_str)
    /\ UNCHANGED <<time_str, result, vars_calls, variant, url, vars_console,
                   vars_dashboard, vars_shown>>

NextParse == CallParseTime \/ CallStParseTime

SpecParse == InitParse /\ [][NextParse]_vars

\* ------------------------------------- format_duration, then parse_time
\* Some durations of 10 hours and more, and of 100 hours and more.
LongDurations == {35999, 36000, 36061, 359999, 360000, 360061}

Seconds == (0..MaxSeconds) \cup LongDurations

InitRoundTrip ==
    /\ seconds \in Seconds
    /\ CatalogIdle /\ DownloadsIdle /\ TitlesIdle
    /\ time_str = <<>> /\ result = NotCalled /\ st_result = NotCalled
    /\ variant = "roundtrip" /\ url = ""
    /\ ConsoleIdle /\ DashboardIdle /\ NothingShown

\* The console pair: parse_time(format_duration(seconds)).
FormatAndParse ==
    /\ variant = "roundtrip"
    /\ result = NotCalled
    /\ time_str' = format_duration(seconds)
    /\ result' = parse_time(time_str')
    /\ UNCHANGED <<st_result, vars_calls, variant, url, vars_console,
                   vars_dashboard, vars_shown>>

\* The dashboard pair: parse_time(format_duration(seconds)).
StFormatAndParse ==
    /\ variant = "roundtrip"
    /\ st_result = NotCalled
    /\ time_str' = st_format_duration(seconds)
    /\ st_result' = st_parse_time(time_str')
    /\ UNCHANGED <<result, vars_calls, variant, url, vars_console,
                   vars_dashboard, vars_shown>>

NextRoundTrip == FormatAndParse \/ StFormatAndParse

SpecRoundTrip == InitRoundTrip /\ [][NextRoundTrip]_vars

\* ------------------------- get_available_formats, get_format_from_selection
\* The stream descriptors of the extractor: video streams of two heights
\* with a video codec that is absent, "none" or named, with and without
\* audio, at two total bitrates; an audio-only stream and a video stream
\* without a height.
DescriptorShapes ==
    {[height |-> h, vcodec |-> v, acodec |-> a, tbr |-> t, vbr |-> None] :
        h \in {Some(720), Some(1080)},
        v \in {Absent, "none", "avc1"},
        a \in {"none", "mp4a"},
        t \in {Some(300), Some(500)}}
    \cup {[height |-> None, vcodec |-> "none", acodec |-> "mp4a",
           tbr |-> Some(300), vbr |-> None],
          [height |-> None, vcodec |-> "avc1", acodec |-> "mp4a",
           tbr |-> Some(300), vbr |-> None]}

\* The format_id of the i-th descriptor of a list.
StreamId(i) == <<"f1", "f2", "f3", "f4">>[i]

Descriptor(i, shape) ==
    [format_id |-> StreamId(i), height |-> shape.height,
     vcodec |-> shape.vcodec, acodec |-> shape.acodec,
     tbr |-> shape.tbr, vbr |-> shape.vbr]

DescriptorLists ==
    UNION {{[i \in 1..n |-> Descriptor(i, shapes[i])] :
               shapes \in [1..n -> DescriptorShapes]} : n \in 0..MaxDescriptors}

\* A selection whose option text holds the given label.
Labelled(text) == [kind |-> "resolution", label |-> text]

Selections ==
    {BestQuality, AudioOnly, Resolution(720), Resolution(1080), Resolution(4320),
     Labelled(<<"a", "p">>), Labelled(<<>>)}

InitCatalog ==
    /\ descriptors \in DescriptorLists
    /\ catalog = None /\ basic_catalog = None /\ st_catalog = None
    /\ selection = BestQuality /\ resolved = ""
    /\ seconds = 0 /\ DownloadsIdle /\ TitlesIdle
    /\ time_str = <<>> /\ result = NotCalled /\ st_result = NotCalled
    /\ variant = "catalog" /\ url = ""
    /\ ConsoleIdle /\ DashboardIdle /\ NothingShown

NoCatalogBuilt == catalog = None /\ basic_catalog = None /\ st_catalog = None

\* The console get_available_formats on info (src/enhanced.py 323).
BuildCatalog ==
    /\ variant = "catalog" /\ NoCatalogBuilt
    /\ catalog' = Some(get_available_formats([formats |-> descriptors]))
    /\ UNCHANGED <<vars_parse, seconds, descriptors, basic_catalog, st_catalog,
                   selection, resolved, now, inflight, vars_titles, variant,
                   url, vars_console, vars_dashboard, vars_shown>>

\* The basic variant's get_available_formats (src/youtube_downloader.py 162).
BuildBasicCatalog ==
    /\ variant = "catalog" /\ NoCatalogBuilt
    /\ basic_catalog' = Some(basic_get_available_formats([formats |-> descriptors]))
    /\ UNCHANGED <<vars_parse, seconds, descriptors, catalog, st_catalog,
                   selection, resolved, now, inflight, vars_titles, variant,
                   url, vars_console, vars_dashboard, vars_shown>>

\* The dashboard get_available_formats (src/streamlit_youtube_app.py 430).
BuildStCatalog ==
    /\ variant = "catalog" /\ NoCatalogBuilt
    /\ st_catalog' = Some(st_get_available_formats([formats |-> descriptors]))
    /\ UNCHANGED <<vars_parse, seconds, descriptors, catalog, basic_catalog,
                   selection, resolved, now, inflight, vars_titles, variant,
                   url, vars_console, vars_dashboard, vars_shown>>

\* get_format_from_selection on the dashboard catalog
\* (src/streamlit_youtube_app.py 542).
ResolveSelection ==
    /\ variant = "catalog" /\ st_catalog # None /\ resolved = ""
    /\ \E sel \in Selections :
        /\ selection' = sel
        /\ resolved' = get_format_from_selection(sel, st_catalog[1])
    /\ UNCHANGED <<vars_parse, seconds, descriptors, catalog, basic_catalog,
                   st_catalog, now, inflight, vars_titles, variant, url,
                   vars_console, vars_dashboard, vars_shown>>

NextCatalog ==
    \/ BuildCatalog
    \/ BuildBasicCatalog
    \/ BuildStCatalog
    \/ ResolveSelection

SpecCatalog == InitCatalog /\ [][NextCatalog]_vars

\* ------------------------------------------------- concurrent downloads
\* The titles and trim bounds of the downloads.
Titles == {<<"a">>, <<"a", "b">>}

TrimBounds == {<<None, None>>, <<Some(1), Some(2)>>}

InitDownloads ==
    /\ DownloadsIdle /\ TitlesIdle
    /\ seconds = 0 /\ CatalogIdle
    /\ time_str = <<>> /\ result = NotCalled /\ st_result = NotCalled
    /\ variant = "downloads" /\ url = ""
    /\ ConsoleIdle /\ DashboardIdle /\ NothingShown

\* Time passes.
Tick ==
    /\ variant = "downloads" /\ now < MaxNow
    /\ now' = now + 1
    /\ UNCHANGED <<vars_parse, seconds, descriptors, catalog, basic_catalog,
                   st_catalog, selection, resolved, inflight, vars_titles, variant,
                   url, vars_console, vars_dashboard, vars_shown>>

\* A session calls download_video and ydl.download starts.
Started(s, template) ==
    /\ variant = "downloads" /\ inflight[s] = None
    /\ inflight' = [inflight EXCEPT ![s] = Some(template)]
    /\ UNCHANGED <<vars_parse, seconds, descriptors, catalog, basic_catalog,
                   st_catalog, selection, resolved, now, vars_titles, variant,
                   url, vars_console, vars_dashboard, vars_shown>>

\* The dashboard's download_video (src/streamlit_youtube_app.py 574).
StStartDownload ==
    \E s \in {"tab1", "tab2"}, t \in Titles, b \in TrimBounds :
        Started(s, st_outtmpl(t, now, b[1], b[2]))

\* The console's download_video (src/enhanced.py 364).
ConsoleStartDownload ==
    \E s \in {"console1", "console2"}, t \in Titles, b \in TrimBounds :
        Started(s, outtmpl(t, b[1], b[2]))

\* The basic console's download_video (src/youtube_downloader.py 194).
BasicStartDownload ==
    \E t \in Titles : Started("basic1", basic_outtmpl(t))

\* ydl.download returns.
FinishDownload ==
    /\ variant = "downloads"
    /\ \E s \in Sessions :
        /\ inflight[s] # None
        /\ inflight' = [inflight EXCEPT ![s] = None]
    /\ UNCHANGED <<vars_parse, seconds, descriptors, catalog, basic_catalog,
                   st_catalog, selection, resolved, now, vars_titles, variant,
                   url, vars_console, vars_dashboard, vars_shown>>

NextDownloads ==
    \/ Tick
    \/ StStartDownload
    \/ ConsoleStartDownload
    \/ BasicStartDownload
    \/ FinishDownload

SpecDownloads == InitDownloads /\ [][NextDownloads]_vars

\* ------------------------------------------------------- safe_title
\* The characters of the model's video titles: letters, a digit, the three
\* kept punctuation characters and two that are dropped.
TitleChars == {"a", "T", "1", " ", "-", "_", "!", "/"}

RECURSIVE TitleTextsUpTo(_)
TitleTextsUpTo(n) ==
    IF n = 0 THEN {<<>>}
    ELSE Let(TitleTextsUpTo(n - 1), LAMBDA shorter :
         shorter \cup {t \o <<c>> : t \in {u \in shorter : Len(u) = n - 1},
                                    c \in TitleChars})

\* The text made of n copies of the character c.
Repeated(c, n) == [i \in 1..n |-> c]

\* Short titles, and titles around the limit of 50 characters: a run of
\* 48 to 50 letters followed by a short tail.
VideoTitles ==
    TitleTextsUpTo(MaxTitle)
    \cup {Repeated("a", n) \o tail :
            n \in (TitleLimit - 2)..TitleLimit, tail \in TitleTextsUpTo(MaxTitle)}

InitTitles ==
    /\ title \in VideoTitles
    /\ safe = None /\ basic_safe = None /\ st_safe = None
    /\ seconds = 0 /\ CatalogIdle /\ DownloadsIdle
    /\ time_str = <<>> /\ result = NotCalled /\ st_result = NotCalled
    /\ variant = "titles" /\ url = ""
    /\ ConsoleIdle /\ DashboardIdle /\ NothingShown

\* The first two statements of the console download_video
\* (src/enhanced.py 224-225).
ConsoleSafeTitle ==
    /\ variant = "titles" /\ safe = None
    /\ safe' = Some(safe_title(title))
    /\ UNCHANGED <<vars_parse, seconds, descriptors, catalog, basic_catalog,
                   st_catalog, selection, resolved, now, inflight, title,
                   basic_safe, st_safe, variant, url, vars_console,
                   vars_dashboard, vars_shown>>

\* The same of the basic variant (src/youtube_downloader.py 92-93).
BasicSafeTitle ==
    /\ variant = "titles" /\ basic_safe = None
    /\ basic_safe' = Some(basic_safe_title(title))
    /\ UNCHANGED <<vars_parse, seconds, descriptors, catalog, basic_catalog,
                   st_catalog, selection, resolved, now, inflight, title,
                   safe, st_safe, variant, url, vars_console,
                   vars_dashboard, vars_shown>>

\* The same of the dashboard (src/streamlit_youtube_app.py 255-256).
StSafeTitle ==
    /\ variant = "titles" /\ st_safe = None
    /\ st_safe' = Some(st_safe_title(title))
    /\ UNCHANGED <<vars_parse, seconds, descriptors, catalog, basic_catalog,
                   st_catalog, selection, resolved, now, inflight, title,
                   safe, basic_safe, variant, url, vars_console,
                   vars_dashboard, vars_shown>>

NextTitles ==
    \/ ConsoleSafeTitle
    \/ BasicSafeTitle
    \/ StSafeTitle

SpecTitles == InitTitles /\ [][NextTitles]_vars

\* ------------------------------------------------------- console: run
\* The console program entered at run() (src/enhanced.py 282), or
\* get_trim_settings entered on its own with any integer duration.
\* A local that is dead at a prompt (it is assigned again before it is read)
\* is held at its initial value there.
InitConsole ==
    /\ ParseIdle /\ DashboardIdle /\ NothingShown
    /\ url = "" /\ formats = <<>> /\ selected_format = ""
    /\ start_input = <<>> /\ end_input = <<>>
    /\ start_time = None /\ end_time = None /\ trim_ret = None
    /\ \/ variant \in {"console", "basic"} /\ pc = "url" /\ duration = None
       \/ /\ variant = "direct" /\ pc = "trim"
          /\ duration \in {Some(d) : d \in 0..MaxDuration}

\* download_video whose failure ends the loop.
Download_failure_exits(st, et) ==
    /\ dl' = Some(download_video(url, selected_format, st, et))
    /\ \E success \in BOOLEAN :
        /\ pc' = IF success THEN "again" ELSE "exit"
        /\ msgs' = IF success THEN {"DownloadCompleted"} ELSE {"DownloadFailed"}

\* download_video is called with (st, et) and returns True or False
\* (src/enhanced.py 364-370), which leads to the "another video?" prompt or
\* back to the URL prompt.
Download(st, et) ==
    /\ dl' = Some(download_video(url, selected_format, st, et))
    /\ \E success \in BOOLEAN :
        /\ pc' = IF success THEN "again" ELSE "url"
        /\ msgs' = IF success THEN {"DownloadCompleted"} ELSE {"DownloadFailed"}

\* get_trim_settings returns (st, et): to run(), which downloads, or to
\* the caller of a direct call.
Returned(st, et) ==
    /\ trim_ret' = Some(<<st, et>>)
    /\ start_time' = None /\ end_time' = None
    /\ IF variant = "direct"
       THEN pc' = "returned" /\ dl' = None /\ msgs' = {}
       ELSE Download(st, et)

\* The URL prompt (src/enhanced.py 291-330).
ConsoleEnterUrl ==
    /\ variant = "console" /\ pc = "url"
    /\ \E u \in Urls \cup {"quit"} :
       \E fetched \in {None} \cup {Some(i) : i \in ExtractorInfos(u)} :
        /\ preview' = None /\ dl' = None /\ trim_ret' = None
        /\ start_input' = <<>> /\ end_input' = <<>>
        /\ UNCHANGED <<vars_parse, vars_calls, variant, vars_dashboard, selected_format,
                       start_time, end_time>>
        /\ IF IsQuit(u)
           THEN /\ pc' = "exit" /\ msgs' = {"Goodbye"}
                /\ UNCHANGED <<url, duration, formats>>
           ELSE IF u = ""
           THEN /\ pc' = "url" /\ msgs' = {"EnterValidUrl"}
                /\ UNCHANGED <<url, duration, formats>>
           ELSE IF ~HasYouTubeHost(u)
           THEN /\ pc' = "url" /\ msgs' = {"EnterValidYouTubeUrl"}
                /\ UNCHANGED <<url, duration, formats>>
           ELSE IF fetched = None
           THEN /\ pc' = "url" /\ msgs' = {"CouldNotRetrieve"}
                /\ UNCHANGED <<url, duration, formats>>
           ELSE IF get_available_formats(fetched[1]) = <<>>
           THEN /\ pc' = "url" /\ msgs' = {"NoSuitableFormats"}
                /\ UNCHANGED <<url, duration, formats>>
           ELSE /\ url' = u
                /\ duration' = fetched[1].duration
                /\ formats' = get_available_formats(fetched[1])
                /\ pc' = "select" /\ msgs' = {}

\* The format prompt (src/enhanced.py 333-351).
ConsoleSelectFormat ==
    /\ variant = "console" /\ pc = "select"
    /\ \E choice \in {<<"x">>} \cup {str_int(n) : n \in 0..(Len(formats) + 2)} :
        Let(py_int(strip(choice)), LAMBDA choice_num :
        /\ preview' = None /\ dl' = None
        /\ UNCHANGED <<vars_parse, vars_calls, variant, url, vars_dashboard, duration, formats,
                       start_input, end_input, start_time, end_time, trim_ret>>
        /\ IF choice_num.exc = "ValueError"
           THEN /\ msgs' = {"EnterValidNumber"}
                /\ UNCHANGED <<pc, selected_format>>
           ELSE IF choice_num.val[1] = Len(formats) + 1
           THEN /\ selected_format' = "audio" /\ pc' = "trimq" /\ msgs' = {}
           ELSE IF 1 <= choice_num.val[1] /\ choice_num.val[1] <= Len(formats)
           THEN /\ selected_format' = formats[choice_num.val[1]].format_id
                /\ pc' = "trimq" /\ msgs' = {}
           ELSE /\ msgs' = {"EnterNumberInRange"}
                /\ UNCHANGED <<pc, selected_format>>)

\* The "Do you want to trim the video?" prompt (src/enhanced.py 354-364).
ConsoleTrimChoice ==
    /\ variant = "console" /\ pc = "trimq"
    /\ \E trim_choice \in {"y", "n"} :
        /\ preview' = None
        /\ UNCHANGED <<vars_parse, vars_calls, variant, url, vars_dashboard, duration, formats,
                       selected_format, start_input, end_input, start_time,
                       end_time, trim_ret>>
        /\ IF trim_choice = "y" /\ Truthy(duration)
           THEN pc' = "trim" /\ msgs' = {} /\ dl' = None
           ELSE Download(None, None)

\* One pass of get_trim_settings' loop: the two time prompts, the checks,
\* and either the preview or the return of (None, None)
\* (src/enhanced.py 68-116).
ConsoleTrimInputs ==
    /\ variant \in {"console", "direct"} /\ pc = "trim"
    /\ \E si \in TimeTexts, ei \in TimeTexts :
        Let(trim_pass(strip(si), strip(ei), duration[1]), LAMBDA r :
        /\ start_input' = strip(si)
        /\ end_input' = strip(ei)
        /\ UNCHANGED <<vars_parse, vars_calls, variant, url, vars_dashboard, duration, formats,
                       selected_format>>
        /\ IF r.msg # ""
           THEN /\ msgs' = {r.msg} /\ preview' = None /\ dl' = None
                /\ trim_ret' = None
                /\ UNCHANGED <<pc, start_time, end_time>>
           ELSE IF Truthy(r.start_time) \/ Truthy(r.end_time)
           THEN /\ start_time' = r.start_time /\ end_time' = r.end_time
                /\ preview' = Some(trim_duration(r.start_time, r.end_time, duration[1]))
                /\ pc' = "confirm" /\ msgs' = {} /\ dl' = None
                /\ trim_ret' = None
           ELSE /\ preview' = None
                /\ Returned(None, None))

\* The "Confirm these settings?" prompt (src/enhanced.py 110-114).
ConsoleConfirm ==
    /\ variant \in {"console", "direct"} /\ pc = "confirm"
    /\ \E confirm \in {"y", "n"} :
        /\ preview' = None
        /\ UNCHANGED <<vars_parse, vars_calls, variant, url, vars_dashboard, duration, formats,
                       selected_format, start_input, end_input>>
        /\ IF confirm = "y"
           THEN Returned(start_time, end_time)
           ELSE /\ pc' = "trim" /\ dl' = None /\ msgs' = {} /\ trim_ret' = None
                /\ start_time' = None /\ end_time' = None

\* The "Download another video?" prompt (src/enhanced.py 366-370).
ConsoleAgain ==
    /\ variant = "console" /\ pc = "again"
    /\ \E continue_choice \in {"y", "n"} :
        /\ pc' = IF continue_choice = "y" THEN "url" ELSE "exit"
        /\ msgs' = IF continue_choice = "y" THEN {} ELSE {"Goodbye"}
        /\ preview' = None /\ dl' = None /\ trim_ret' = None
        /\ start_input' = <<>> /\ end_input' = <<>>
        /\ UNCHANGED <<vars_parse, vars_calls, variant, url, vars_dashboard, duration, formats,
                       selected_format, start_time, end_time>>

\* The prompts at which run() waits for input.
ConsolePrompts == {"url", "select", "trimq", "trim", "confirm", "again"}

\* Ctrl-C while run() waits or works: `except KeyboardInterrupt: break`
\* (src/enhanced.py 372-374, src/youtube_downloader.py 202-204).
ConsoleInterrupt ==
    /\ variant \in {"console", "basic"} /\ pc \in ConsolePrompts
    /\ pc' = "exit" /\ msgs' = {"Interrupted"}
    /\ preview' = None /\ dl' = None /\ trim_ret' = None
    /\ start_input' = <<>> /\ end_input' = <<>>
    /\ start_time' = None /\ end_time' = None
    /\ UNCHANGED <<vars_parse, vars_calls, variant, url, vars_dashboard,
                   duration, formats, selected_format>>

\* Any other exception inside the body of the loop, such as the EOFError of
\* input(): `except Exception: ... continue`
\* (src/enhanced.py 375-377, src/youtube_downloader.py 205-207).
ConsoleUnexpected ==
    /\ variant \in {"console", "basic"} /\ pc \in ConsolePrompts
    /\ pc' = "url" /\ msgs' = {"UnexpectedError"}
    /\ preview' = None /\ dl' = None /\ trim_ret' = None
    /\ start_input' = <<>> /\ end_input' = <<>>
    /\ start_time' = None /\ end_time' = None
    /\ UNCHANGED <<vars_parse, vars_calls, variant, url, vars_dashboard,
                   duration, formats, selected_format>>

\* The URL prompt of the basic console (src/youtube_downloader.py 129-168);
\* the duration is only printed.
BasicEnterUrl ==
    /\ variant = "basic" /\ pc = "url"
    /\ \E u \in Urls \cup {"quit"} :
       \E fetched \in {None} \cup {Some(i) : i \in ExtractorInfos(u)} :
        /\ preview' = None /\ dl' = None
        /\ UNCHANGED <<vars_parse, vars_calls, variant, vars_dashboard,
                       duration, selected_format, start_input, end_input,
                       start_time, end_time, trim_ret>>
        /\ IF IsQuit(u)
           THEN /\ pc' = "exit" /\ msgs' = {"Goodbye"}
                /\ UNCHANGED <<url, formats>>
           ELSE IF u = ""
           THEN /\ pc' = "url" /\ msgs' = {"EnterValidUrl"}
                /\ UNCHANGED <<url, formats>>
           ELSE IF ~HasYouTubeHost(u)
           THEN /\ pc' = "url" /\ msgs' = {"EnterValidYouTubeUrl"}
                /\ UNCHANGED <<url, formats>>
           ELSE IF fetched = None
           THEN /\ pc' = "url" /\ msgs' = {"CouldNotRetrieve"}
                /\ UNCHANGED <<url, formats>>
           ELSE IF basic_get_available_formats(fetched[1]) = <<>>
           THEN /\ pc' = "url" /\ msgs' = {"NoSuitableFormats"}
                /\ UNCHANGED <<url, formats>>
           ELSE /\ url' = u
                /\ formats' = basic_get_available_formats(fetched[1])
                /\ pc' = "select" /\ msgs' = {}

\* The basic console's download_video returns True or False
\* (src/youtube_downloader.py 194-200).
BasicDownload(format_choice) ==
    /\ dl' = Some(basic_download_video(url, format_choice))
    /\ \E success \in BOOLEAN :
        /\ pc' = IF success THEN "again" ELSE "url"
        /\ msgs' = IF success THEN {"DownloadCompleted"} ELSE {"DownloadFailed"}

\* The format prompt of the basic console and the download that follows a
\* valid choice (src/youtube_downloader.py 171-194).
BasicSelectFormat ==
    /\ variant = "basic" /\ pc = "select"
    /\ \E choice \in {<<"x">>} \cup {str_int(n) : n \in 0..(Len(formats) + 2)} :
        Let(py_int(strip(choice)), LAMBDA choice_num :
        /\ preview' = None
        /\ UNCHANGED <<vars_parse, vars_calls, variant, url, vars_dashboard,
                       duration, formats, start_input, end_input, start_time,
                       end_time, trim_ret>>
        /\ IF choice_num.exc = "ValueError"
           THEN /\ msgs' = {"EnterValidNumber"} /\ dl' = None
                /\ UNCHANGED <<pc, selected_format>>
           ELSE IF choice_num.val[1] = Len(formats) + 1
           THEN /\ selected_format' = "audio"
                /\ BasicDownload("audio")
           ELSE IF 1 <= choice_num.val[1] /\ choice_num.val[1] <= Len(formats)
           THEN /\ selected_format' = formats[choice_num.val[1]].format_id
                /\ BasicDownload(formats[choice_num.val[1]].format_id)
           ELSE /\ msgs' = {"EnterNumberInRange"} /\ dl' = None
                /\ UNCHANGED <<pc, selected_format>>)

\* The "Download another video?" prompt of the basic console
\* (src/youtube_downloader.py 196-200).
BasicAgain ==
    /\ variant = "basic" /\ pc = "again"
    /\ \E continue_choice \in {"y", "n"} :
        /\ pc' = IF continue_choice = "y" THEN "url" ELSE "exit"
        /\ msgs' = IF continue_choice = "y" THEN {} ELSE {"Goodbye"}
        /\ preview' = None /\ dl' = None
        /\ UNCHANGED <<vars_parse, vars_calls, variant, url, vars_dashboard,
                       duration, formats, selected_format, start_input,
                       end_input, start_time, end_time, trim_ret>>

NextConsole ==
    \/ ConsoleEnterUrl
    \/ ConsoleSelectFormat
    \/ ConsoleTrimChoice
    \/ ConsoleTrimInputs
    \/ ConsoleConfirm
    \/ ConsoleAgain
    \/ ConsoleInterrupt
    \/ ConsoleUnexpected
    \/ BasicEnterUrl
    \/ BasicSelectFormat
    \/ BasicAgain

SpecConsole == InitConsole /\ [][NextConsole]_vars

\* ------------------------------------------------- dashboard: the page
\* run_streamlit_app runs once per user action (src/streamlit_youtube_app.py
\* 384-598).  A widget that a run does not render loses its value.
InitDashboard ==
    /\ ParseIdle /\ ConsoleIdle /\ NothingShown
    /\ variant = "dashboard" /\ url = ""
    /\ video_info = None /\ ss_formats = <<>>
    /\ ffmpeg_available \in BOOLEAN
    /\ enable_trim = FALSE
    /\ start_time_str = <<>> /\ end_time_str = <<>>
    /\ selected = BestQuality

\* `if st.session_state.video_info and st.session_state.formats`
OptionsShown(vi, fs) == vi # None /\ fs # <<>>

\* video_info.get('duration', 0)
InfoDuration(vi) == IF vi # None THEN vi[1].duration ELSE None

\* The time inputs are rendered (src/streamlit_youtube_app.py 487-508).
TimeInputsShown(vi, fs, enable, ffmpeg) ==
    OptionsShown(vi, fs) /\ enable /\ ffmpeg /\ Truthy(InfoDuration(vi))

\* The rest of the run after the handler of the action: the trimming column
\* and, when the Download button was clicked, its handler
\* (src/streamlit_youtube_app.py 456-597).  shown are the handler's messages.
ShowPage(clicked, shown) ==
    IF ~OptionsShown(video_info', ss_formats')
    THEN msgs' = shown /\ preview' = None /\ dl' = None
    ELSE Let(st_trim_section(enable_trim', ffmpeg_available',
                             InfoDuration(video_info'),
                             start_time_str', end_time_str'),
             LAMBDA sec :
         /\ preview' = sec.preview
         /\ IF ~clicked
            THEN msgs' = shown \cup sec.msgs /\ dl' = None
            ELSE Let(st_trim_valid(enable_trim', ffmpeg_available',
                                   InfoDuration(video_info'),
                                   sec.start_time, sec.end_time),
                     LAMBDA verdict :
                 IF verdict # ""
                 THEN msgs' = shown \cup sec.msgs \cup {verdict} /\ dl' = None
                 ELSE /\ dl' = Some(st_download_video(
                                        url',
                                        get_format_from_selection(selected', ss_formats'),
                                        IF enable_trim' /\ ffmpeg_available'
                                        THEN sec.start_time ELSE None,
                                        IF enable_trim' /\ ffmpeg_available'
                                        THEN sec.end_time ELSE None))
                      /\ \E downloaded \in BOOLEAN :
                           msgs' = shown \cup sec.msgs
                                   \cup {IF downloaded THEN "DownloadCompleted"
                                                       ELSE "DownloadFailed"}))

\* The widgets after a run in which the session holds (vi, fs): those the
\* run renders keep the given values, the others fall back to their defaults.
Widgets(vi, fs, enable, sel, sstr, estr) ==
    /\ enable_trim' = (OptionsShown(vi, fs) /\ enable)
    /\ selected' = IF /\ OptionsShown(vi, fs)
                      /\ sel \in Range(create_download_options(fs))
                   THEN sel ELSE BestQuality
    /\ start_time_str' = IF TimeInputsShown(vi, fs, enable, ffmpeg_available)
                         THEN sstr ELSE <<>>
    /\ end_time_str' = IF TimeInputsShown(vi, fs, enable, ffmpeg_available)
                       THEN estr ELSE <<>>

\* The user edits the URL field (src/streamlit_youtube_app.py 417-421).
DashEditUrl ==
    /\ variant = "dashboard"
    /\ \E u \in Urls :
        /\ url' = u
        /\ UNCHANGED <<vars_parse, vars_calls, variant, vars_console, video_info,
                       ss_formats, ffmpeg_available, enable_trim,
                       start_time_str, end_time_str, selected>>
        /\ ShowPage(FALSE, {})

\* The "Get Video Info" button whose failed fetch clears video_info only.
DashGetVideoInfo_formats_kept ==
    /\ variant = "dashboard"
    /\ \E fetched \in {None} \cup {Some(i) : i \in ExtractorInfos(url)} :
        /\ UNCHANGED <<vars_parse, vars_calls, variant, url, vars_console, ffmpeg_available>>
        /\ IF url # "" /\ HasYouTubeHost(url)
           THEN IF fetched # None
                THEN /\ video_info' = fetched
                     /\ ss_formats' = st_get_available_formats(fetched[1])
                     /\ Widgets(video_info', ss_formats', enable_trim, selected,
                                start_time_str, end_time_str)
                     /\ ShowPage(FALSE, {"InfoLoaded"})
                ELSE /\ video_info' = None
                     /\ ss_formats' = ss_formats
                     /\ Widgets(video_info', ss_formats', enable_trim, selected,
                                start_time_str, end_time_str)
                     /\ ShowPage(FALSE, {"CouldNotFetch"})
           ELSE /\ UNCHANGED <<video_info, ss_formats, enable_trim,
                               start_time_str, end_time_str, selected>>
                /\ ShowPage(FALSE, {"EnterValidYouTubeUrl"})

\* The "Get Video Info" button (src/streamlit_youtube_app.py 424-437).
DashGetVideoInfo ==
    /\ variant = "dashboard"
    /\ \E fetched \in {None} \cup {Some(i) : i \in ExtractorInfos(url)} :
        /\ UNCHANGED <<vars_parse, vars_calls, variant, url, vars_console, ffmpeg_available>>
        /\ IF url # "" /\ HasYouTubeHost(url)
           THEN IF fetched # None
                THEN /\ video_info' = fetched
                     /\ ss_formats' = st_get_available_formats(fetched[1])
                     /\ Widgets(video_info', ss_formats', enable_trim, selected,
                                start_time_str, end_time_str)
                     /\ ShowPage(FALSE, {"InfoLoaded"})
                ELSE /\ video_info' = None
                     /\ ss_formats' = <<>>
                     /\ Widgets(video_info', ss_formats', enable_trim, selected,
                                start_time_str, end_time_str)
                     /\ ShowPage(FALSE, {"CouldNotFetch"})
           ELSE /\ UNCHANGED <<video_info, ss_formats, enable_trim,
                               start_time_str, end_time_str, selected>>
                /\ ShowPage(FALSE, {"EnterValidYouTubeUrl"})

\* The quality selectbox (src/streamlit_youtube_app.py 467-472).
DashSelectFormat ==
    /\ variant = "dashboard"
    /\ OptionsShown(video_info, ss_formats)
    /\ \E sel \in Range(create_download_options(ss_formats)) :
        /\ selected' = sel
        /\ UNCHANGED <<vars_parse, vars_calls, variant, url, vars_console, video_info,
                       ss_formats, ffmpeg_available, enable_trim,
                       start_time_str, end_time_str>>
        /\ ShowPage(FALSE, {})

\* The "Enable trimming" checkbox, disabled without FFmpeg
\* (src/streamlit_youtube_app.py 485).
DashToggleTrim ==
    /\ variant = "dashboard"
    /\ OptionsShown(video_info, ss_formats)
    /\ ffmpeg_available
    /\ UNCHANGED <<vars_parse, vars_calls, variant, url, vars_console, video_info,
                   ss_formats, ffmpeg_available>>
    /\ Widgets(video_info, ss_formats, ~enable_trim, selected,
               start_time_str, end_time_str)
    /\ ShowPage(FALSE, {})

\* The "Start time" input (src/streamlit_youtube_app.py 497-501).
DashEditStart ==
    /\ variant = "dashboard"
    /\ TimeInputsShown(video_info, ss_formats, enable_trim, ffmpeg_available)
    /\ \E t \in TimeTexts :
        /\ start_time_str' = t
        /\ UNCHANGED <<vars_parse, vars_calls, variant, url, vars_console, video_info,
                       ss_formats, ffmpeg_available, enable_trim,
                       end_time_str, selected>>
        /\ ShowPage(FALSE, {})

\* The "End time" input (src/streamlit_youtube_app.py 504-508).
DashEditEnd ==
    /\ variant = "dashboard"
    /\ TimeInputsShown(video_info, ss_formats, enable_trim, ffmpeg_available)
    /\ \E t \in TimeTexts :
        /\ end_time_str' = t
        /\ UNCHANGED <<vars_parse, vars_calls, variant, url, vars_console, video_info,
                       ss_formats, ffmpeg_available, enable_trim,
                       start_time_str, selected>>
        /\ ShowPage(FALSE, {})

\* The "Download Video" button (src/streamlit_youtube_app.py 541-597).
DashDownload ==
    /\ variant = "dashboard"
    /\ OptionsShown(video_info, ss_formats)
    /\ UNCHANGED <<vars_parse, vars_calls, variant, url, vars_console, vars_dashboard>>
    /\ ShowPage(TRUE, {})

NextDashboard ==
    \/ DashEditUrl
    \/ DashGetVideoInfo
    \/ DashSelectFormat
    \/ DashToggleTrim
    \/ DashEditStart
    \/ DashEditEnd
    \/ DashDownload

SpecDashboard == InitDashboard /\ [][NextDashboard]_vars

\* Both variants.
Init == InitConsole \/ InitDashboard

Next == NextConsole \/ NextDashboard

Spec == Init /\ [][Next]_vars

\* ------------------------------------------- trimming: what a state shows
\* The total duration the validation of the current variant compares with.
CurDuration == IF variant = "dashboard" THEN InfoDuration(video_info) ELSE duration

\* The text of the start and of the end field of the last validation.
StartText == IF variant = "dashboard" THEN start_time_str ELSE start_input
EndText == IF variant = "dashboard" THEN end_time_str ELSE end_input

\* The bound a field's text stands for: None when the field is blank or its
\* text does not parse, the parsed integer (0 included) otherwise.
BoundOf(text) ==
    IF text = <<>> THEN None
    ELSE IF variant = "dashboard" THEN st_parse_time(text).val
    ELSE parse_time(text).val

StartBound == BoundOf(StartText)
EndBound == BoundOf(EndText)

TrimReasons == {"InvalidStartFormat", "InvalidEndFormat", "StartBeyondDuration",
                "EndBeyondDuration", "EndNotAfterStart"}

\* The reason a message carries: the dashboard words the three reasons once
\* under the preview and once more on the Download click.
ReasonOf(m) ==
    CASE m = "InvalidStartTime" -> "StartBeyondDuration"
      [] m = "InvalidEndTime" -> "EndBeyondDuration"
      [] m = "InvalidTimeRange" -> "EndNotAfterStart"
      [] OTHER -> m

ReasonsShown == {ReasonOf(m) : m \in msgs} \cap TrimReasons

\* No download was started and no pair was returned by the last step.
NoDownload ==
    /\ dl = None /\ trim_ret = None
    /\ msgs \cap {"DownloadCompleted", "DownloadFailed"} = {}

\* The last validation rejected its input with the given reason; the console
\* asks for the two times again.
Rejected(reason) ==
    /\ reason \in ReasonsShown
    /\ NoDownload
    /\ variant # "dashboard" => pc = "trim"

StartBeyond ==
    StartBound # None /\ Truthy(CurDuration) /\ StartBound[1] >= CurDuration[1]

EndBeyond ==
    EndBound # None /\ Truthy(CurDuration) /\ EndBound[1] > CurDuration[1]

EndNotAfter ==
    StartBound # None /\ EndBound # None /\ EndBound[1] <= StartBound[1]

\* The start field passes its own checks: blank, or parsed and below the
\* total duration.  An unparseable start is a format error at the console
\* and counts as blank on the dashboard.
StartPasses ==
    /\ ~StartBeyond
    /\ variant # "dashboard" => (StartText = <<>> \/ StartBound # None)

ViolatedReasons ==
    (IF StartBeyond THEN {"StartBeyondDuration"} ELSE {})
    \cup (IF EndBeyond THEN {"EndBeyondDuration"} ELSE {})
    \cup (IF EndNotAfter THEN {"EndNotAfterStart"} ELSE {})

\* C1: every (start, end) pair handed to download_video with a bound present
\* has a known total duration, 0 <= start < total, end <= total, and
\* end > start when both are present.
C1_TrimDirectiveInvariant ==
    (dl # None /\ (dl[1].start_time # None \/ dl[1].end_time # None)) =>
        /\ Truthy(CurDuration)
        /\ dl[1].start_time # None =>
              /\ dl[1].start_time[1] >= 0
              /\ dl[1].start_time[1] < CurDuration[1]
        /\ dl[1].end_time # None => dl[1].end_time[1] <= CurDuration[1]
        /\ (dl[1].start_time # None /\ dl[1].end_time # None) =>
              dl[1].end_time[1] > dl[1].start_time[1]

\* C2: whenever both fields parse to an integer (0 included), end <= start,
\* and the pair passes the two duration checks, the validation rejects the
\* pair with EndNotAfterStart; and no download is started with a pair whose
\* end is not after its start.
C2_EndNotAfterStartRejected ==
    /\ (/\ EndNotAfter /\ CurDuration # None
        /\ StartBound[1] < CurDuration[1]
        /\ EndBound[1] <= CurDuration[1]) => Rejected("EndNotAfterStart")
    /\ (dl # None /\ dl[1].start_time # None /\ dl[1].end_time # None) =>
          dl[1].end_time[1] > dl[1].start_time[1]

\* C3: whenever the start field parses to an integer that is >= the total
\* duration (known and > 0), the validation rejects it with
\* StartBeyondDuration, and no download is started with such a start.
C3_StartBeyondDurationRejected ==
    /\ StartBeyond => Rejected("StartBeyondDuration")
    /\ (dl # None /\ dl[1].start_time # None /\ Truthy(CurDuration)) =>
          dl[1].start_time[1] < CurDuration[1]

\* A start of at least the total duration was typed, the validation ran,
\* and the user was shown the reason.
C3_Witness ==
    /\ variant = "dashboard"
    /\ StartBeyond
    /\ "InvalidStartTime" \in msgs
    /\ dl = None

\* end == total is accepted when the start field raises no objection.
EndAtTotalAccepted ==
    (/\ EndBound # None /\ Truthy(CurDuration) /\ EndBound[1] = CurDuration[1]
     /\ StartPasses
     /\ StartBound # None => StartBound[1] < EndBound[1])
    => ReasonsShown = {}

C5_DurationUnknownRejected ==
    /\ (dl # None /\ ~Truthy(CurDuration)) =>
          dl[1].start_time = None /\ dl[1].end_time = None
    /\ (variant = "direct" /\ duration = Some(0) /\ trim_ret # None) =>
          trim_ret = Some(<<None, None>>)

\* Both fields of the last validation were left blank.
BothBlank == StartText = <<>> /\ EndText = <<>>

\* C6: when neither start nor end is given, the validation shows no error
\* and yields the no-trim pair, and the download built from a no-trim pair
\* is the one built with trimming omitted: no seek/duration arguments, no
\* trim postprocessor, no trim suffix.
C6_NoTrimIsOmittedTrim ==
    /\ BothBlank => ReasonsShown = {}
    /\ (BothBlank /\ trim_ret # None) => trim_ret = Some(<<None, None>>)
    /\ (BothBlank /\ dl # None) =>
          /\ dl[1].start_time = None /\ dl[1].end_time = None
          /\ variant = "console" =>
                dl[1] = basic_download_video(url, selected_format)
          /\ variant = "dashboard" =>
                dl[1] = st_download_video(
                            url, get_format_from_selection(selected, ss_formats),
                            None, None)
    /\ (dl # None /\ dl[1].start_time = None /\ dl[1].end_time = None) =>
          /\ dl[1].suffix = <<>>
          /\ dl[1].postprocessor_args = <<>>
          /\ Range(dl[1].postprocessors)
                \cap {"FFmpegVideoConvertor", "FFmpegMetadata"} = {}

\* The console ran a pass with both fields blank and downloaded a video
\* format with the pair it returned.
C6_Witness ==
    /\ variant = "console"
    /\ BothBlank
    /\ trim_ret = Some(<<None, None>>)
    /\ dl # None
    /\ selected_format # "audio"

\* The trim duration of the formula `(end ?? total) - (start ?? 0)`.
ExpectedTrimDuration ==
    (IF EndBound # None THEN EndBound[1] ELSE CurDuration[1])
    - (IF StartBound # None THEN StartBound[1] ELSE 0)

\* C7: for every accepted directive with a bound present (bounds >= 0), the
\* displayed trim duration is (end if present else total) - (start if
\* present else 0), a bound of 0 counting as present, and is positive.
C7_DisplayedTrimDuration ==
    (/\ preview # None
     /\ ReasonsShown = {}
     /\ StartBound # None => StartBound[1] >= 0
     /\ EndBound # None => EndBound[1] >= 0)
    => /\ preview = Some(ExpectedTrimDuration)
       /\ ExpectedTrimDuration > 0

C9_PositionalValue ==
    \A p \in PositionalTexts :
        time_str = p.text =>
            /\ result \in {NotCalled, Ret(Some(p.value))}
            /\ st_result \in {NotCalled, Ret(Some(p.value))}

C9_Witness ==
    /\ time_str = <<"0", ":", "0", "1", ":", "3", "0">>
    /\ result = Ret(Some(90))
    /\ st_result = Ret(Some(90))

\* What the specification calls malformed, stated on the text itself.
ColonCount(t) == Cardinality({i \in 1..Len(t) : t[i] = ":"})

IsBlank(t) == \A i \in 1..Len(t) : t[i] \in Whitespace

\* The colon-free runs of t, as (first, last) index pairs.
ComponentBounds(t) ==
    LET cuts == {0, Len(t) + 1} \cup {i \in 1..Len(t) : t[i] = ":"} IN
    {<<q[1] + 1, q[2] - 1>> : q \in {p \in cuts \X cuts :
         /\ p[1] < p[2]
         /\ \A d \in cuts : ~(p[1] < d /\ d < p[2])}}

\* An integer literal in the sense of int(): optional padding, optional
\* sign, digits, an underscore only between two digits.
IsIntegerLiteral(c) ==
    LET solid == {i \in 1..Len(c) : c[i] \notin Whitespace} IN
    /\ solid # {}
    /\ LET lo == CHOOSE i \in solid : \A j \in solid : i <= j
           hi == CHOOSE i \in solid : \A j \in solid : i >= j
           first == IF c[lo] \in {"+", "-"} THEN lo + 1 ELSE lo
       IN  /\ first <= hi
           /\ \A i \in first..hi :
                  \/ c[i] \in Digits
                  \/ /\ c[i] = "_"
                     /\ first < i /\ i < hi
                     /\ c[i - 1] \in Digits /\ c[i + 1] \in Digits

HasNonIntegerComponent(t) ==
    \E b \in ComponentBounds(t) : ~IsIntegerLiteral(SubSeq(t, b[1], b[2]))

Malformed(t) == IsBlank(t) \/ ColonCount(t) >= 3 \/ HasNonIntegerComponent(t)

\* C10: for every text parse_time returns and never raises, and it returns
\* null when the text is empty or whitespace-only, has a non-integer
\* component, or has three or more colons.
C10_MalformedGivesNull ==
    \A r \in {result, st_result} :
        r # NotCalled =>
            /\ r.exc = ""
            /\ Malformed(time_str) => r = Ret(None)

C10_Witness ==
    /\ time_str = <<"1", ":", "2", ":", "3", ":", "4">>
    /\ result = Ret(None)
    /\ st_result = Ret(None)

\* C11: parse_time returns null or an integer >= 0 for every text, in both
\* variants; a signed literal never yields a negative number of seconds.
C11_NeverNegative ==
    /\ result.val # None => result.val[1] >= 0
    /\ st_result.val # None => st_result.val[1] >= 0

\* MM:SS below one hour, HH:MM:SS from one hour on, every field of two
\* digits at least.
DurationShape(text, s) ==
    /\ ColonCount(text) = (IF s < 3600 THEN 1 ELSE 2)
    /\ \A p \in ComponentBounds(text) : p[2] - p[1] + 1 >= 2

\* C12 as stated: for every s >= 0 and the formatter/parser pair of each
\* variant, parse_time(format_duration(s)) = s.
C12_RoundTrip ==
    /\ result # NotCalled => result = Ret(Some(seconds))
    /\ st_result # NotCalled => st_result = Ret(Some(seconds))

\* C12, amended: parse_time(format_duration(s)) = s for every s >= 0 with
\* the console pair and for every s > 0 with the dashboard pair, the text
\* being MM:SS below 3600 and HH:MM:SS from 3600 on; the dashboard renders
\* 0 as "Unknown", which parses to null.
C12_RoundTripOfRenderedDurations ==
    /\ result # NotCalled => result = Ret(Some(seconds))
    /\ DurationShape(format_duration(seconds), seconds)
    /\ (st_result # NotCalled /\ seconds > 0) =>
          /\ st_result = Ret(Some(seconds))
          /\ DurationShape(st_format_duration(seconds), seconds)
    /\ (st_result # NotCalled /\ seconds = 0) =>
          /\ st_format_duration(seconds) = <<"U", "n", "k", "n", "o", "w", "n">>
          /\ st_result = Ret(None)

\* A duration of an hour or more went through both pairs.
C12_Witness ==
    /\ variant = "roundtrip"
    /\ seconds >= 3600
    /\ ColonCount(time_str) = 2
    /\ result = Ret(Some(seconds))
    /\ st_result = Ret(Some(seconds))

\* The catalogs built in the current state, of whichever variant.
BuiltCatalogs ==
    (IF catalog = None THEN {} ELSE {catalog[1]})
    \cup (IF basic_catalog = None THEN {} ELSE {basic_catalog[1]})
    \cup (IF st_catalog = None THEN {} ELSE {st_catalog[1]})

\* The descriptor the extractor listed under a stream id.
DescriptorOf(id) == CHOOSE d \in Range(descriptors) : d.format_id = id

\* The descriptors of a height that carry a video codec.
VideoOfHeight(h) ==
    {d \in Range(descriptors) :
        d.vcodec \notin {Absent, "none"} /\ d.height = Some(h)}

\* C13: get_available_formats returns at most one entry per distinct
\* height, in the console, the basic and the dashboard variant.
C13_OneEntryPerHeight ==
    \A c \in BuiltCatalogs : \A i, j \in DOMAIN c :
        i # j => c[i].height # c[j].height

C13_Witness ==
    /\ st_catalog # None /\ Len(descriptors) = 2
    /\ descriptors[1].vcodec = "avc1" /\ descriptors[2].vcodec = "avc1"
    /\ descriptors[1].height = Some(1080) /\ descriptors[2].height = Some(1080)
    /\ Len(st_catalog[1]) = 1

\* C14: among the descriptors of one height, the dashboard catalog keeps
\* the one with audio if any has audio, and otherwise one of the highest
\* bitrate, whatever the order of the input.
C14_BestOfHeightKept ==
    st_catalog # None =>
        \A i \in DOMAIN st_catalog[1] :
            LET e == st_catalog[1][i]
                group == VideoOfHeight(e.height)
            IN  IF \E d \in group : d.acodec \notin {Absent, "none"}
                THEN e.has_audio
                ELSE \A d \in group : OrElse(d.tbr, 0) <= OrElse(e.tbr, 0)

\* C15: every catalog entry, in each of the three variants, comes from a
\* descriptor whose video codec is present and is not "none".
C15_EntriesHaveVideoCodec ==
    \A c \in BuiltCatalogs : \A i \in DOMAIN c :
        DescriptorOf(c[i].format_id).vcodec \notin {Absent, "none"}

\* C16: the catalog is ordered strictly descending by height, so its first
\* entry is the highest resolution.
C16_StrictlyDescending ==
    \A c \in BuiltCatalogs :
        /\ \A i \in 1..(Len(c) - 1) : c[i].height > c[i + 1].height
        /\ \A i \in DOMAIN c : c[1].height >= c[i].height

C16_Witness ==
    /\ st_catalog # None /\ Len(descriptors) = 2
    /\ descriptors[1].vcodec = "avc1" /\ descriptors[2].vcodec = "avc1"
    /\ descriptors[1].height = Some(720) /\ descriptors[2].height = Some(1080)
    /\ Len(st_catalog[1]) = 2 /\ st_catalog[1][1].height = 1080

\* The entries of the dashboard catalog whose resolution label is the label
\* of the selection.
MatchingEntries ==
    {e \in Range(st_catalog[1]) : str_int(e.height) \o <<"p">> = selection.label}

\* The stream ids of the descriptors.
StreamIds == {d.format_id : d \in Range(descriptors)}

C18_AudioOnlyFixed ==
    /\ (resolved # "" /\ selection = AudioOnly) => resolved = "bestaudio/best"
    /\ catalog # None =>
          download_video(url, "audio", None, None).format = <<"bestaudio/best">>

C18_Witness ==
    /\ selection = AudioOnly /\ resolved = "bestaudio/best"
    /\ st_catalog = Some(<<>>) /\ descriptors # <<>>

\* C19: a selection whose resolution label matches no catalog entry resolves
\* to the same default expression as the Best Quality selection, and the
\* call does not raise.
C19_UnmatchedFallsBack ==
    (resolved # "" /\ selection.kind = "resolution" /\ MatchingEntries = {}) =>
        /\ resolved = get_format_from_selection(BestQuality, st_catalog[1])
        /\ resolved = "best[height<=?1080]/best"
        /\ resolved # "raises ValueError"

C19_Witness ==
    /\ selection = Resolution(4320) /\ st_catalog # None
    /\ st_catalog[1] # <<>> /\ MatchingEntries = {}
    /\ resolved = "best[height<=?1080]/best"

\* C20: no two downloads in flight at the same time target the same output
\* file name: the outtmpl of any two running download_video calls differ.
C20_DistinctOutputFiles ==
    \A s, t \in Sessions :
        (s # t /\ inflight[s] # None /\ inflight[t] # None) =>
            inflight[s] # inflight[t]

\* The sanitized titles computed in the current state.
SafeTitles ==
    (IF safe = None THEN {} ELSE {safe[1]})
    \cup (IF basic_safe = None THEN {} ELSE {basic_safe[1]})
    \cup (IF st_safe = None THEN {} ELSE {st_safe[1]})

\* C21: the title-derived part of the file name holds only alphanumerics,
\* spaces, hyphens and underscores, is at most 50 characters long, and is
\* the same string in all three entry points for the same title.
C21_SanitizedTitle ==
    /\ \A t \in SafeTitles :
          /\ Len(t) <= 50
          /\ \A i \in DOMAIN t :
                /\ isalnum(t[i]) \/ t[i] \in {" ", "-", "_"}
                /\ t[i] \notin {"!", "/"}
    /\ Cardinality(SafeTitles) <= 1

C21_Witness ==
    /\ Len(title) > 50 /\ "!" \in Range(title)
    /\ safe # None /\ basic_safe # None /\ st_safe # None
    /\ Len(st_safe[1]) = 50

\* The messages that report a failure of the extractor, of the download, or
\* an unexpected exception.
FailureReports == {"CouldNotRetrieve", "DownloadFailed", "UnexpectedError"}

\* What C22 says of one step of the console loop.
FailureLeadsToUrlPrompt ==
    variant \in {"console", "basic"} =>
        /\ (msgs' \cap FailureReports # {}) => pc' = "url"
        /\ (pc # "exit" /\ pc' = "exit") =>
              \/ pc = "url" /\ msgs' = {"Goodbye"}
              \/ /\ pc = "again" /\ msgs = {"DownloadCompleted"}
                 /\ msgs' = {"Goodbye"}
              \/ msgs' = {"Interrupted"}
        /\ pc = "exit" => pc' = "exit"
        /\ pc = "again" => msgs = {"DownloadCompleted"}

\* C22: in the console loop a failure of the extractor or of the download,
\* or an unexpected exception, is reported and leads back to the URL prompt;
\* the loop ends only on quit/exit/q at the URL prompt, on a keyboard
\* interrupt, or on a non-yes answer after a successful download.
C22_FailureReturnsToUrlPrompt == [][FailureLeadsToUrlPrompt]_vars

C22_Witness ==
    /\ variant = "console" /\ pc = "url"
    /\ msgs = {"DownloadFailed"} /\ dl # None /\ dl[1].start_time # None

\* The text of a time field was typed and does not parse.
TypedUnparsed(text) == ~IsBlank(text) /\ BoundOf(text) = None

\* The trimming inputs of the current state are in force: always at the
\* console's time prompts, on the dashboard when the trimming fields are
\* shown.
TrimInForce ==
    variant = "dashboard" =>
        enable_trim /\ ffmpeg_available /\ Truthy(CurDuration)

\* C23: a time field whose non-empty text fails to parse is reported as a
\* failure and never counts as "not specified": while such a text stands in
\* a field the input is rejected with a reason, and no download is started
\* and no pair of bounds returned.
C23_UnparsedBoundIsReported ==
    (TrimInForce /\ (TypedUnparsed(StartText) \/ TypedUnparsed(EndText))) =>
        /\ NoDownload
        /\ ReasonsShown # {}
        /\ (TypedUnparsed(StartText) /\ variant # "dashboard") =>
              "InvalidStartFormat" \in msgs

\* C24: in the dashboard the session's catalog is the catalog built from
\* the session's current video_info; after a failed fetch both are cleared;
\* the catalog is never non-empty while video_info is absent.
C24_CatalogFollowsVideoInfo ==
    variant = "dashboard" =>
        /\ video_info # None =>
              ss_formats = st_get_available_formats(video_info[1])
        /\ video_info = None => ss_formats = <<>>
        /\ "CouldNotFetch" \in msgs => (video_info = None /\ ss_formats = <<>>)
        /\ "InfoLoaded" \in msgs => video_info # None

C24_Witness ==
    /\ variant = "dashboard" /\ "InfoLoaded" \in msgs
    /\ video_info # None /\ Len(ss_formats) = 2
    /\ ss_formats = st_get_available_formats(video_info[1])

\* C25: in the dashboard every download is issued for the URL whose
\* metadata the session holds at that moment: the URL passed to
\* download_video is the URL of the video that the title, the catalog and
\* the resolved format passed with it belong to.
C25_DownloadMatchesMetadata ==
    (variant = "dashboard" /\ dl # None) =>
        /\ video_info # None
        /\ dl[1].url = video_info[1].video

====
